---- MODULE Spec2Model ----
(***************************************************************************)
(* Research pipeline of Clara_BE: the research view, the pipeline          *)
(* ResearchPipeline.research_politician with its persistence, search,      *)
(* fetch and staged LLM analysis, and the Q&A handler QuestionView.post.   *)
(*                                                                         *)
(* Persistence is modelled as the interface the services use: Politician   *)
(* rows looked up by name, ResearchResult rows carrying the position the   *)
(* pipeline writes and filters on.  Every call to an external collaborator *)
(* (database, search provider, HTTP, LLM) has a nondeterministic outcome.  *)
(***************************************************************************)
EXTENDS Integers, Sequences, FiniteSets, TLC

\* ------------------------------------------------------------------ bounds
Procs == {1, 2}
Names == {"jane doe", "Jane Doe"}
Positions == {"Senator"}
Urls == {"u1"}
MaxTime == 4
MaxRows == 2
MaxFaults == 1
MaxCalls == 2
MaxRespLen == 2
MaxQandA == 1
MaxHits == 1
DayUnits == 2
MaxAges == {1}

\* ------------------------------------------------------- program constants
DefaultMaxAge == 7
NumResults == 2
MinContentLen == 500
QueryList == <<"q1", "q2">>
ContentLens == {0, 499, 500}
Aspects == <<"background", "accomplishments", "criticisms", "summary">>

VARIABLES now, politicians, rows, lastCreated, faults, started, run, active,
          qa, qandas, call

pipelineVars == <<now, politicians, rows, lastCreated, faults, started, run, active>>

qaVars == <<qa, qandas>>

vars == <<pipelineVars, qaVars, call>>

\* ----------------------------------------------------------------- helpers
Min(a, b) == IF a < b THEN a ELSE b

SeqsUpTo(S, n) == UNION {[1..k -> S] : k \in 0..n}

\* str.lower() on the names and positions of the model
Lower(s) ==
  CASE s = "Jane Doe" -> "jane doe"
    [] s = "Senator" -> "senator"
    [] s = "Mayor" -> "mayor"
    [] OTHER -> s

\* name__iexact / position__iexact
IExact(a, b) == Lower(a) = Lower(b)

\* (timezone.now() - created_at).days
AgeDays(createdAt) == (now - createdAt) \div DayUnits

is_recentStrict(createdAt, days) == AgeDays(createdAt) < days

\* ResearchResult.is_recent
is_recent(createdAt, days) == AgeDays(createdAt) <= days

\* current_time - latest_research.created_at < timedelta(days=max_age)
ViewFresh(createdAt, maxAge) == now - createdAt < maxAge * DayUnits

\* ResearchResult.objects.filter(politician=, position__iexact=)
\*   .order_by('-created_at').first(); 0 stands for None
Matching(polId, position) ==
  {i \in 1..Len(rows) : rows[i].pol = polId /\ IExact(rows[i].position, position)}

LatestResearch(polId, position) ==
  LET m == Matching(polId, position)
  IN IF m = {} THEN 0
     ELSE CHOOSE i \in m : \A j \in m :
            \/ rows[j].created_at < rows[i].created_at
            \/ (rows[j].created_at = rows[i].created_at /\ j <= i)

\* Politician.objects.get_or_create(name=name): exact match on name
ExactMatches(name) == {i \in 1..Len(politicians) : politicians[i].name = name}

\* Politician.objects.get(name__iexact=normalized_name)
IExactMatches(name) == {i \in 1..Len(politicians) : IExact(politicians[i].name, name)}

\* the pipeline call that created the newest ResearchResult: its name
\* argument and the id of the row (history, not program state)
NoCall == [arg |-> "none", id |-> 0]

NoResult == [kind |-> "none", id |-> 0, keys |-> {}, content |-> <<>>]

RRResult(id) == [kind |-> "rr", id |-> id, keys |-> {}, content |-> <<>>]

OuterDiagNoPosition(r) ==
  [kind |-> "diag", id |-> 0, keys |-> {"name", "error"}, content |-> <<>>]

\* pipeline_service.py outer except: {"name", "position", "error"}
OuterDiag(r) ==
  [kind |-> "diag", id |-> 0, keys |-> {"name", "position", "error"}, content |-> <<>>]

\* pipeline_service.py analysis except and the no-content branch:
\* {"politician", "error", "content_list"}
InnerDiag(r) ==
  [kind |-> "diag", id |-> 0, keys |-> {"politician", "error", "content_list"},
   content |-> r.contents]

NoField == [tag |-> "unset", aspect |-> "none"]

IdleRun ==
  [pc |-> "idle", entry |-> "none", reqName |-> "none", position |-> "none",
   maxAge |-> 0, force |-> FALSE, arg |-> "none", name |-> "none", pmax |-> 0,
   viewPol |-> 0, latest |-> 0,
   pol |-> 0, created |-> FALSE, complete |-> FALSE, cacheErr |-> FALSE,
   hits |-> <<>>, contents |-> <<>>,
   background |-> NoField, accomplishments |-> NoField,
   criticisms |-> NoField, summary |-> NoField, sumInput |-> <<>>,
   calls |-> <<>>, raised |-> "none", newId |-> 0,
   invoked |-> FALSE, fetched |-> FALSE, external |-> {}, prior |-> NoCall,
   result |-> NoResult, status |-> 0]

\* ------------------------------------------------------------------- Init
QAIdle ==
  [pc |-> "idle", first |-> <<>>, second |-> <<>>, final |-> <<>>,
   llmCalls |-> 0, rounds |-> 0, addl |-> 0, before |-> 0, status |-> 0]

PipelineInit ==
  /\ now = 0
  /\ politicians = <<>>
  /\ rows = <<>>
  /\ lastCreated = NoCall
  /\ faults = 0
  /\ started = 0
  /\ run = [p \in Procs |-> IdleRun]
  /\ active = {1}

\* no service function is being called on its own
NoFn == [fn |-> "none"]

\* the database is empty and no request is being handled
Quiet ==
  /\ PipelineInit
  /\ qa = QAIdle
  /\ qandas = <<>>

Init ==
  /\ Quiet
  /\ call = NoFn

CanFault == faults < MaxFaults

\* a step of process p that leaves the database alone
Set(p, r) ==
  /\ run' = [run EXCEPT ![p] = r]
  /\ UNCHANGED <<now, politicians, rows, lastCreated, active, qaVars, call>>

\* the same, for every step but the start of a request
Local(p, r) == Set(p, r) /\ UNCHANGED started

\* time passes between requests; only the age of stored results is observable
Tick ==
  /\ now < MaxTime
  /\ rows # <<>>
  /\ \A p \in Procs : run[p].pc = "idle"
  /\ now' = now + 1
  /\ UNCHANGED <<politicians, rows, lastCreated, faults, started, run, active, qaVars, call>>

\* ------------------------------------------------- research view (views.py)
\* where a finished pipeline call hands its value: back to the view, or to
\* the direct caller
AfterPipeline(r) == IF r.entry = "direct" THEN "done" ELSE "respond"

\* views.py: request received; an empty position is answered with 400
StartView(p) ==
  /\ p \in active
  /\ run[p].pc = "idle"
  /\ \E n \in Names, pos \in Positions \cup {""}, m \in MaxAges \cup {DefaultMaxAge},
        method \in {"GET", "POST"} :
       Set(p, [IdleRun EXCEPT !.entry = method, !.reqName = n, !.position = pos,
                                !.maxAge = m, !.force = (method = "POST"),
                                !.pc = IF pos = "" THEN "done" ELSE "view_find",
                                !.status = IF pos = "" THEN 400 ELSE 0])
  /\ started < MaxCalls
  /\ started' = started + 1
  /\ UNCHANGED faults

\* views.py: Politician.objects.get(name__iexact=normalized_name)
ViewFind(p) ==
  LET r == run[p]
      normalized == Lower(r.reqName)
      m == IExactMatches(normalized)
  IN /\ r.pc = "view_find"
     /\ \/ /\ Cardinality(m) = 1
           /\ Local(p, [r EXCEPT !.viewPol = CHOOSE i \in m : TRUE, !.pc = "view_cache"])
           /\ UNCHANGED faults
        \/ /\ m = {}
           /\ Local(p, [r EXCEPT !.arg = normalized, !.name = normalized,
                                 !.pmax = DefaultMaxAge, !.pc = "construct"])
           /\ UNCHANGED faults
        \/ /\ Cardinality(m) > 1
           /\ Local(p, [r EXCEPT !.raised = "view", !.status = 500, !.pc = "done"])
           /\ UNCHANGED faults
        \/ /\ CanFault
           /\ faults' = faults + 1
           /\ Local(p, [r EXCEPT !.raised = "view", !.status = 500, !.pc = "done"])

\* views.py: the view's own cache decision
ViewReuses(r, latest) ==
  /\ latest # 0
  /\ ViewFresh(rows[latest].created_at, r.maxAge)
  /\ ~r.force

\* views.py: latest research lookup (errors swallowed) and the decision
\* between the stored result and a new pipeline call with the default max_age
ViewCache(p) ==
  LET r == run[p]
      Decide(latest) ==
        IF ViewReuses(r, latest)
        THEN [r EXCEPT !.latest = latest, !.result = RRResult(latest), !.pc = "respond"]
        ELSE [r EXCEPT !.latest = latest, !.arg = politicians[r.viewPol].name,
                       !.name = politicians[r.viewPol].name,
                       !.pmax = DefaultMaxAge, !.pc = "construct"]
  IN /\ r.pc = "view_cache"
     /\ \/ /\ Local(p, Decide(LatestResearch(r.viewPol, r.position)))
           /\ UNCHANGED faults
        \/ /\ CanFault
           /\ faults' = faults + 1
           /\ Local(p, Decide(0))

\* views.py: the response built from research_result
StatusOf(result) ==
  CASE result.kind = "rr" -> 200
    [] result.kind = "raised" -> 500
    [] result.kind = "diag" /\ "error" \in result.keys -> 400
    [] OTHER -> 200

Respond(p) ==
  LET r == run[p]
  IN /\ r.pc = "respond"
     /\ Local(p, [r EXCEPT !.status = StatusOf(r.result), !.pc = "done"])
     /\ UNCHANGED faults

\* a caller of the pipeline other than the view: research(name, position, max_age)
StartDirect(p) ==
  /\ p \in active
  /\ run[p].pc = "idle"
  /\ \E n \in Names, pos \in Positions, m \in MaxAges \cup {DefaultMaxAge} :
       Set(p, [IdleRun EXCEPT !.entry = "direct", !.reqName = n, !.arg = n,
                                !.name = n, !.position = pos, !.maxAge = m,
                                !.pmax = m, !.pc = "construct"])
  /\ started < MaxCalls
  /\ started' = started + 1
  /\ UNCHANGED faults

\* the caller has consumed the value
Finish(p) ==
  /\ run[p].pc = "done"
  /\ Local(p, IdleRun)
  /\ UNCHANGED faults

\* --------------------------- ResearchPipeline.__init__ (pipeline_service.py)
\* LLMService() raises ValueError without a credential; the pipeline catches
\* it and sets llm_service = None, and PoliticianPipeline.__init__ then
\* calls LLMService() again, which raises out of the constructor
Construct(p) ==
  LET r == run[p]
  IN /\ r.pc = "construct"
     /\ \/ /\ Local(p, [r EXCEPT !.invoked = TRUE, !.prior = lastCreated, !.pc = "normalize"])
           /\ UNCHANGED faults
        \/ /\ CanFault
           /\ faults' = faults + 1
           /\ Local(p, [r EXCEPT !.raised = "construct", !.pc = "done",
                                 !.status = IF r.entry = "direct" THEN 0 ELSE 500])

\* ------------------- ResearchPipeline.research_politician (pipeline_service.py)
\* the value research_politician returns, and where control goes next
Return(r, res) == [r EXCEPT !.result = res, !.pc = AfterPipeline(r)]

Escaped == [kind |-> "raised", id |-> 0, keys |-> {}, content |-> <<>>]

RaiseOuterEscapes(r, stage) == Return([r EXCEPT !.raised = stage], Escaped)

\* an exception caught by the outer handler
RaiseOuter(r, stage) == Return([r EXCEPT !.raised = stage], OuterDiag(r))

\* an exception caught by the handler around analysis and persistence
RaiseInner(r, stage) == Return([r EXCEPT !.raised = stage], InnerDiag(r))

NormalizationDeferred(r, n) == [r EXCEPT !.name = n, !.pc = "get_or_create"]

\* lines 71-76: the name after normalize_politician_name has run.
\* r.external records the stages with calls to the outside that the
\* invocation has run
Normalized(r, n) ==
  [r EXCEPT !.name = n, !.external = @ \cup {"normalize"}, !.pc = "get_or_create"]

\* Step 0: normalize_politician_name never raises; it resolves to the
\* original name or to any other name
Normalize(p) ==
  LET r == run[p]
  IN /\ r.pc = "normalize"
     /\ \E n \in Names : Local(p, Normalized(r, n))
     /\ UNCHANGED faults

\* Step 1, the lookup half of get_or_create(name=name)
GetPolitician(p) ==
  LET r == run[p]
      m == ExactMatches(r.name)
  IN /\ r.pc = "get_or_create"
     /\ \/ /\ Cardinality(m) = 1
           /\ LET i == CHOOSE i \in m : TRUE
              IN Local(p, [r EXCEPT !.pol = i, !.created = FALSE,
                                    !.complete = politicians[i].complete,
                                    !.pc = "cache_check"])
           /\ UNCHANGED faults
        \/ /\ m = {}
           /\ Local(p, [r EXCEPT !.pc = "create_politician"])
           /\ UNCHANGED faults
        \/ /\ Cardinality(m) > 1
           /\ Local(p, RaiseOuter(r, "get_or_create"))
           /\ UNCHANGED faults
        \/ /\ CanFault
           /\ faults' = faults + 1
           /\ Local(p, RaiseOuter(r, "get_or_create"))

\* Step 1, the insert half of get_or_create(name=name)
CreatePolitician(p) ==
  LET r == run[p]
  IN /\ r.pc = "create_politician"
     /\ \/ /\ politicians' = Append(politicians, [name |-> r.name, complete |-> FALSE])
           /\ run' = [run EXCEPT ![p] = [r EXCEPT !.pol = Len(politicians) + 1,
                                                  !.created = TRUE, !.complete = FALSE,
                                                  !.pc = "enrich"]]
           /\ UNCHANGED <<now, rows, lastCreated, faults, started, active, qaVars, call>>
        \/ /\ CanFault
           /\ faults' = faults + 1
           /\ Local(p, RaiseOuter(r, "get_or_create"))

\* line 104: if created or not politician.party or not politician.image_url
AfterCacheCheck(r) == IF r.created \/ ~r.complete THEN "enrich" ELSE "search"

\* Step 1.2: existing_research and existing_research.is_recent(days=max_age)
PipelineReuses(r, existing) ==
  /\ existing # 0
  /\ is_recent(rows[existing].created_at, r.pmax)

LookupFailureEscapes(r) == RaiseOuter([r EXCEPT !.cacheErr = TRUE], "cache_check")

\* lines 100-101: an exception of the lookup or of is_recent is logged and
\* control goes on after the if/else of Step 1
LookupFailed(r) == [r EXCEPT !.cacheErr = TRUE, !.pc = AfterCacheCheck(r)]

\* Step 1.2, only for an existing politician; a lookup error is swallowed
CacheCheck(p) ==
  LET r == run[p]
      existing == LatestResearch(r.pol, r.position)
  IN /\ r.pc = "cache_check"
     /\ \/ /\ PipelineReuses(r, existing)
           /\ Local(p, Return(r, RRResult(existing)))
           /\ UNCHANGED faults
        \/ /\ ~PipelineReuses(r, existing)
           /\ Local(p, [r EXCEPT !.pc = AfterCacheCheck(r)])
           /\ UNCHANGED faults
        \/ /\ CanFault
           /\ faults' = faults + 1
           /\ Local(p, LookupFailed(r))

\* Step 1.5: enrich_politician fills the empty fields and saves the row
\* (party and image both found, or one of them still empty); an exception
\* inside it reaches the outer handler
Enrich(p) ==
  LET r == run[p]
  IN /\ r.pc = "enrich"
     /\ \/ /\ politicians' = [politicians EXCEPT ![r.pol].complete = TRUE]
           /\ run' = [run EXCEPT ![p] = [r EXCEPT !.external = @ \cup {"enrich"},
                                                  !.pc = "search"]]
           /\ UNCHANGED <<now, rows, lastCreated, faults, started, active, qaVars, call>>
        \/ /\ CanFault
           /\ faults' = faults + 1
           /\ \/ /\ run' = [run EXCEPT ![p] = [r EXCEPT !.external = @ \cup {"enrich"},
                                                        !.pc = "search"]]
                 /\ UNCHANGED <<now, politicians, rows, lastCreated, started, active, qaVars, call>>
              \/ Local(p, RaiseOuter([r EXCEPT !.external = @ \cup {"enrich"}], "enrich"))

\* Steps 2 and 3: generate_search_queries, then search(query, num_results=2)
\* per query; neither raises.  The generated queries are abstracted to
\* QueryList; every result is tagged with the query that produced it
TitleOf(u) == IF u = "u1" THEN "t1" ELSE "t2"

RECURSIVE CollectHits(_, _)
CollectHits(perQuery, k) ==
  IF k = 0 THEN <<>>
  ELSE CollectHits(perQuery, k - 1) \o
       [i \in 1..Len(perQuery[k]) |->
          [url |-> perQuery[k][i], title |-> TitleOf(perQuery[k][i]), query |-> QueryList[k]]]

Search(p) ==
  LET r == run[p]
  IN /\ r.pc = "search"
     /\ \E perQuery \in [1..Len(QueryList) -> SeqsUpTo(Urls, Min(MaxHits, NumResults))] :
          Local(p, [r EXCEPT !.hits = CollectHits(perQuery, Len(QueryList)),
                             !.external = @ \cup {"search"}, !.pc = "fetch"])
     /\ UNCHANGED faults

KeepsNonEmpty(len) == len > 0

\* Step 4: if not content or len(content.strip()) < 500: continue
KeepsContent(len) == len >= MinContentLen

RECURSIVE ContentList(_, _, _)
ContentList(hits, lens, k) ==
  IF k = 0 THEN <<>>
  ELSE LET rest == ContentList(hits, lens, k - 1)
       IN IF KeepsContent(lens[k])
          THEN Append(rest, [url |-> hits[k].url, title |-> hits[k].title,
                             content |-> lens[k], query |-> hits[k].query])
          ELSE rest

AfterFetchAlways(r, contents) ==
  [r EXCEPT !.hits = <<>>, !.contents = contents, !.fetched = TRUE, !.pc = "background"]

\* line 144: if self.llm_service and extracted_content_texts (a constructed
\* pipeline always has an llm_service, see Construct)
AfterFetch(r, contents) ==
  IF contents # <<>>
  THEN [r EXCEPT !.hits = <<>>, !.contents = contents, !.fetched = TRUE, !.pc = "background"]
  ELSE Return([r EXCEPT !.hits = <<>>, !.contents = contents, !.fetched = TRUE],
              InnerDiag([r EXCEPT !.contents = contents]))

\* Step 4: fetch_content per result (never raises; content is modelled by
\* its stripped length)
Fetch(p) ==
  LET r == run[p]
  IN /\ r.pc = "fetch"
     /\ \E lens \in [1..Len(r.hits) -> ContentLens] :
          Local(p, AfterFetch(r, ContentList(r.hits, lens, Len(r.hits))))
     /\ UNCHANGED faults

\* ------------------------------------------------ LLMService (llm_service.py)
\* LLMService.query: "text" a non-empty answer, "blank" an answer with empty
\* text, "empty" no candidate, "exc" an exception of the model call
QueryOutcomes == {"text", "blank", "empty", "exc"}

query(outcome) ==
  CASE outcome = "text" -> [response |-> "text", error |-> FALSE]
    [] outcome = "blank" -> [response |-> "", error |-> FALSE]
    [] outcome = "empty" -> [response |-> "No response was generated", error |-> TRUE]
    [] OTHER -> [response |-> "Error occurred during LLM query", error |-> TRUE]

analyzeRaw(aspect, outcome) ==
  [tag |-> IF query(outcome).response = "" THEN "blank" ELSE "text", aspect |-> aspect]

\* analyze_politician_<aspect>: the response, or the aspect's error string
analyze(aspect, outcome) ==
  IF query(outcome).error
  THEN [tag |-> "error", aspect |-> aspect]
  ELSE [tag |-> IF query(outcome).response = "" THEN "blank" ELSE "text", aspect |-> aspect]

NextStageSkipping(aspect) ==
  CASE aspect = "background" -> "accomplishments"
    [] aspect = "accomplishments" -> "summary"
    [] aspect = "criticisms" -> "summary"
    [] OTHER -> "persist"

\* Steps 5.1 to 5.4 and 6 in program order
NextStage(aspect) ==
  CASE aspect = "background" -> "accomplishments"
    [] aspect = "accomplishments" -> "criticisms"
    [] aspect = "criticisms" -> "summary"
    [] OTHER -> "persist"

SetField(r, aspect, v) ==
  CASE aspect = "background" -> [r EXCEPT !.background = v]
    [] aspect = "accomplishments" -> [r EXCEPT !.accomplishments = v]
    [] aspect = "criticisms" -> [r EXCEPT !.criticisms = v]
    [] OTHER -> [r EXCEPT !.summary = v,
                          !.sumInput = <<r.background, r.accomplishments, r.criticisms>>]

\* one analysis call of Step 5 (the aspect the control is at): the prompt is loaded and rendered outside
\* query's own try, so a prompt error raises into the analysis handler
Analyze(p) ==
  LET r == run[p]
      aspect == r.pc
      Done(o) == [SetField(r, aspect, analyze(aspect, o))
                    EXCEPT !.calls = Append(r.calls, [aspect |-> aspect, outcome |-> o]),
                           !.pc = NextStage(aspect)]
  IN /\ \E k \in 1..Len(Aspects) : r.pc = Aspects[k]
     /\ \/ /\ Local(p, Done("text"))
           /\ UNCHANGED faults
        \/ /\ CanFault
           /\ faults' = faults + 1
           /\ \/ \E o \in QueryOutcomes \ {"text"} : Local(p, Done(o))
              \/ Local(p, RaiseInner(r, aspect))

\* Step 6: ResearchResult.objects.create(...)
NewRow(r) ==
  [pol |-> r.pol, position |-> r.position, created_at |-> now,
   background |-> r.background, accomplishments |-> r.accomplishments,
   criticisms |-> r.criticisms, summary |-> r.summary,
   sources |-> r.contents]

CreateUnlessRecent(rs, r) ==
  IF \E i \in 1..Len(rs) : /\ rs[i].pol = r.pol
                            /\ IExact(rs[i].position, r.position)
                            /\ is_recent(rs[i].created_at, r.pmax)
  THEN rs
  ELSE Append(rs, NewRow(r))

CreateOrReplace(rs, r) ==
  IF \E i \in 1..Len(rs) : rs[i].pol = r.pol /\ IExact(rs[i].position, r.position)
  THEN LET i == CHOOSE i \in 1..Len(rs) :
                  rs[i].pol = r.pol /\ IExact(rs[i].position, r.position)
       IN Append([rs EXCEPT ![i].summary = r.summary], NewRow(r))
  ELSE Append(rs, NewRow(r))

\* Step 6: the row is inserted whatever rows exist by now; the cache check
\* of Step 1.2 is not repeated and no lock is held
Create(rs, r) == Append(rs, NewRow(r))

Persist(p) ==
  LET r == run[p]
  IN /\ r.pc = "persist"
     /\ \/ /\ Len(rows) < MaxRows
           /\ rows' = Create(rows, r)
           /\ lastCreated' = [arg |-> r.arg, id |-> Len(rows) + 1]
           /\ run' = [run EXCEPT ![p] =
                        Return([r EXCEPT !.newId = Len(rows) + 1], RRResult(Len(rows) + 1))]
           /\ UNCHANGED <<now, politicians, faults, started, active, qaVars, call>>
        \/ /\ CanFault
           /\ faults' = faults + 1
           /\ Local(p, RaiseInner(r, "persist"))

\* ----------------------------------------------------------- specification
Step(p) ==
  \/ StartView(p)
  \/ ViewFind(p)
  \/ ViewCache(p)
  \/ Respond(p)
  \/ StartDirect(p)
  \/ Finish(p)
  \/ Construct(p)
  \/ Normalize(p)
  \/ GetPolitician(p)
  \/ CreatePolitician(p)
  \/ CacheCheck(p)
  \/ Enrich(p)
  \/ Search(p)
  \/ Fetch(p)
  \/ Analyze(p)
  \/ Persist(p)

Next == Tick \/ \E p \in Procs : Step(p)

Spec == Init /\ [][Next]_vars

\* ------------------------------------------------- concurrent invocations
\* two callers of research_politician at once, on an empty database; no
\* fault is injected, so every step is the code's normal path
InitRace ==
  /\ now = 0
  /\ politicians = <<>>
  /\ rows = <<>>
  /\ lastCreated = NoCall
  /\ faults = MaxFaults
  /\ started = 0
  /\ run = [p \in Procs |-> IdleRun]
  /\ active = Procs
  /\ qa = QAIdle
  /\ qandas = <<>>
  /\ call = NoFn

StepRace(p) ==
  \/ StartDirect(p)
  \/ Finish(p)
  \/ Construct(p)
  \/ Normalize(p)
  \/ GetPolitician(p)
  \/ CreatePolitician(p)
  \/ CacheCheck(p)
  \/ Enrich(p)
  \/ Search(p)
  \/ Fetch(p)
  \/ Analyze(p)
  \/ Persist(p)

NextRace == \E p \in Procs : StepRace(p)

SpecRace == InitRace /\ [][NextRace]_vars

\* ------------------------------------------- QuestionView.post (chat/views.py)
\* text is a sequence of tokens: the two tags, whitespace, other text
Tokens == {"SEARCH_QUERY:", "ANSWER:", " ", "text"}

\* what llm.answer_user_question can return: any text
Responses == SeqsUpTo(Tokens, MaxRespLen)

QASearchResults == 3

IDontKnow == <<"I don't know.">>

\* str.startswith(tag)
startswith(s, tag) == Len(s) > 0 /\ s[1] = tag

\* str.strip()
RECURSIVE strip(_)
strip(s) ==
  IF s = <<>> THEN s
  ELSE IF s[1] = " " THEN strip(Tail(s))
  ELSE IF s[Len(s)] = " " THEN strip(SubSeq(s, 1, Len(s) - 1))
  ELSE s

\* s.split(tag, 1)[1].strip() for an s that starts with tag
AfterTag(s) == strip(Tail(s))

\* strip off the ANSWER: tag if present
Untag(s) == IF startswith(s, "ANSWER:") THEN AfterTag(s) ELSE s

NoFallback(final) == final

FallbackKeepsQuery(final) ==
  IF startswith(final, "SEARCH_QUERY:") THEN AfterTag(final) ELSE final

\* fallback for unresolved search queries
Fallback(final) == IF startswith(final, "SEARCH_QUERY:") THEN IDontKnow ELSE final

\* request with chat_id and question for an existing chat
QAStart ==
  /\ qa.pc = "idle"
  /\ Len(qandas) < MaxQandA
  /\ qa' = [QAIdle EXCEPT !.pc = "ask", !.before = Len(qandas)]
  /\ UNCHANGED <<qandas, pipelineVars, call>>

\* llm = LLMService(), which raises without a credential and is not caught
\* by the handler; then 1) ask the LLM to answer or to name a search query
QAFirst ==
  /\ qa.pc = "ask"
  /\ \/ \E resp \in Responses :
          qa' = [qa EXCEPT !.first = resp, !.llmCalls = 1,
                           !.pc = IF startswith(resp, "SEARCH_QUERY:")
                                  THEN "search" ELSE "finalize"]
     \/ qa' = [qa EXCEPT !.status = 500, !.pc = "answered"]
  /\ UNCHANGED <<qandas, pipelineVars, call>>

\* 2) perform the suggested search and fetch each result (errors skipped)
QASearch ==
  /\ qa.pc = "search"
  /\ \E n \in 0..QASearchResults :
       qa' = [qa EXCEPT !.rounds = qa.rounds + 1, !.addl = n, !.pc = "reask"]
  /\ UNCHANGED <<qandas, pipelineVars, call>>

QASecondRetrying ==
  /\ qa.pc = "reask"
  /\ \E resp \in Responses :
       qa' = [qa EXCEPT !.second = resp, !.llmCalls = qa.llmCalls + 1,
                        !.pc = IF startswith(resp, "SEARCH_QUERY:")
                               THEN "search" ELSE "finalize"]
  /\ UNCHANGED <<qandas, pipelineVars, call>>

\* 3) re-ask with expanded context
QASecond ==
  /\ qa.pc = "reask"
  /\ \E resp \in Responses :
       qa' = [qa EXCEPT !.second = resp, !.llmCalls = qa.llmCalls + 1, !.pc = "finalize"]
  /\ UNCHANGED <<qandas, pipelineVars, call>>

\* the answer before the fallback: from the second response on the search
\* path, from the first on the direct path
Answer(q) == IF startswith(q.first, "SEARCH_QUERY:") THEN Untag(q.second) ELSE Untag(q.first)

\* fallback, then QandA.objects.create(answer=final or "") and 201
QAPersist ==
  /\ qa.pc = "finalize"
  /\ LET final == Fallback(Answer(qa))
     IN /\ qa' = [qa EXCEPT !.final = final, !.status = 201, !.pc = "answered"]
        /\ qandas' = Append(qandas, final)
  /\ UNCHANGED <<pipelineVars, call>>

QAFinish ==
  /\ qa.pc = "answered"
  /\ qa' = QAIdle
  /\ UNCHANGED <<qandas, pipelineVars, call>>

NextQA ==
  \/ QAStart
  \/ QAFirst
  \/ QASearch
  \/ QASecond
  \/ QAPersist
  \/ QAFinish

SpecQA == Init /\ [][NextQA]_vars

\* the handler runs in one request thread: each of its steps is taken once
\* it is enabled
SpecQAFair ==
  /\ SpecQA
  /\ WF_vars(QAFirst) /\ WF_vars(QASearch) /\ WF_vars(QASecond) /\ WF_vars(QAPersist)

\* ------------------------------- SearchService.is_website_url (search_service.py)
\* a URL is a sequence of pieces of text: the scheme with its colon, the
\* delimiters of urlparse, a parameter key, file extensions and other words
MaxUrlLen == 4

UrlHeads ==
  {<<>>, <<"https:">>, <<"https:", "//">>, <<"https:", "//", "x.com">>,
   <<"//", "x.com">>, <<"x.com">>}

UrlTailTokens == {"/", "article", ".pdf", ".PDF", "?", "#", "filename="}

\* the three URLs the specification names
UrlDocPdf == <<"https:", "//", "x.com", "/", "doc", ".pdf">>

UrlArticle == <<"https:", "//", "x.com", "/", "article">>

UrlRelative == <<"/", "path">>

UrlTexts ==
  {h \o tl : h \in UrlHeads, tl \in SeqsUpTo(UrlTailTokens, MaxUrlLen)}
    \cup {UrlDocPdf, UrlArticle, UrlRelative}

\* the argument: a str, or a value without str methods (None)
UrlInputs == {[kind |-> "str", text |-> u] : u \in UrlTexts} \cup {[kind |-> "none", text |-> <<>>]}

\* str.lower() on a piece of a URL
LowerPiece(c) == IF c = ".PDF" THEN ".pdf" ELSE c

\* excluded_extensions, as far as the pieces of the model name them
ExcludedExtensions == {".pdf"}

\* index of the first piece of s at or after position i that is in D, or
\* Len(s) + 1
RECURSIVE FirstIn(_, _, _)
FirstIn(s, i, D) ==
  IF i > Len(s) THEN Len(s) + 1
  ELSE IF s[i] \in D THEN i
  ELSE FirstIn(s, i + 1, D)

\* urllib.parse.urlparse on a text whose only colon, if any, ends its
\* first piece
urlparse(u) ==
  LET hasScheme == u # <<>> /\ u[1] = "https:"
      rest == IF hasScheme THEN Tail(u) ELSE u
      hasNetloc == rest # <<>> /\ rest[1] = "//"
      afterSlashes == IF hasNetloc THEN Tail(rest) ELSE rest
      netEnd == IF hasNetloc THEN FirstIn(afterSlashes, 1, {"/", "//", "?", "#"}) ELSE 1
      afterNet == SubSeq(afterSlashes, netEnd, Len(afterSlashes))
      pathEnd == FirstIn(afterNet, 1, {"?", "#"})
      afterPath == SubSeq(afterNet, pathEnd, Len(afterNet))
      hasQuery == afterPath # <<>> /\ afterPath[1] = "?"
      queryEnd == IF hasQuery THEN FirstIn(afterPath, 2, {"#"}) ELSE 1
  IN [scheme |-> IF hasScheme THEN "https" ELSE "",
      netloc |-> SubSeq(afterSlashes, 1, netEnd - 1),
      path |-> SubSeq(afterNet, 1, pathEnd - 1),
      query |-> IF hasQuery THEN SubSeq(afterPath, 2, queryEnd - 1) ELSE <<>>]

\* path.endswith(ext) for one of the excluded extensions
PathExcluded(path) == path # <<>> /\ LowerPiece(path[Len(path)]) \in ExcludedExtensions

\* re.search(r'file(name|type)=.*\.(pdf|doc|jpg|png)', s.lower())
FileParamMatch(s) ==
  \E i, j \in 1..Len(s) : i < j /\ s[i] = "filename=" /\ LowerPiece(s[j]) \in {".pdf"}

\* the regular expression is searched in the whole lower-cased URL
FileParamInUrl(u) == FileParamMatch(u)

is_website_url(url) ==
  IF url.kind # "str" THEN FALSE
  ELSE LET u == url.text
       IN IF u # <<>> /\ u[1] \in {"/", "//"} THEN FALSE
          ELSE IF urlparse(u).scheme = "" \/ urlparse(u).netloc = <<>> THEN FALSE
          ELSE IF PathExcluded(urlparse(u).path) THEN FALSE
          ELSE IF FileParamInUrl(u) THEN FALSE
          ELSE TRUE

InitUrl ==
  /\ Quiet
  /\ \E u \in UrlInputs : call = [fn |-> "is_website_url", arg |-> u, done |-> FALSE, out |-> FALSE]

IsWebsiteUrl ==
  /\ call.fn = "is_website_url"
  /\ ~call.done
  /\ call' = [call EXCEPT !.done = TRUE, !.out = is_website_url(call.arg)]
  /\ UNCHANGED <<pipelineVars, qaVars>>

NextUrl == IsWebsiteUrl

SpecUrl == InitUrl /\ [][NextUrl]_vars

\* ----------------------- SearchService.generate_search_queries (search_service.py)
\* a string is a sequence of words and single spaces
MaxPosLen == 3

QueryNames == {<<"Jane", " ", "Doe">>, <<"Jane">>, <<>>}

PosTokens == {"Senator", " ", "biography", "record", "before"}

QueryPositions == SeqsUpTo(PosTokens, MaxPosLen)

SP == <<" ">>

\* f"{name} <words>"
NameAnd(name, words) == name \o SP \o words

base_queries(name, position) ==
  <<NameAnd(name, position),
    NameAnd(name, <<"politician", " ", "background">>),
    NameAnd(name, <<"biography">>),
    NameAnd(name, <<"political", " ", "career">>)>>

accomplishment_queries(name) ==
  <<NameAnd(name, <<"accomplishments">>),
    NameAnd(name, <<"legislation", " ", "authored">>),
    NameAnd(name, <<"policy", " ", "success">>)>>

criticism_queries(name) ==
  <<NameAnd(name, <<"controversy", " ", "and", " ", "scandal">>),
    NameAnd(name, <<"corruption", " ", "allegations">>),
    NameAnd(name, <<"criticism">>),
    NameAnd(name, <<"ethics", " ", "investigation">>)>>

background_queries(name) ==
  <<NameAnd(name, <<"education", " ", "background">>),
    NameAnd(name, <<"political", " ", "history">>),
    NameAnd(name, <<"family", " ", "background">>),
    NameAnd(name, <<"business", " ", "interests">>),
    NameAnd(name, <<"financial", " ", "disclosure">>)>>

position_queries(name, position) ==
  <<NameAnd(name, position \o SP \o <<"record">>),
    NameAnd(name, position \o SP \o <<"performance">>),
    NameAnd(name, position \o SP \o <<"tenure">>),
    NameAnd(name, <<"before">> \o SP \o position)>>

\* position and len(position.strip()) > 0
HasPosition(position) == \E i \in 1..Len(position) : position[i] # " "

all_queries(name, position) ==
  base_queries(name, position) \o accomplishment_queries(name)
    \o criticism_queries(name) \o background_queries(name)
    \o (IF HasPosition(position) THEN position_queries(name, position) ELSE <<>>)

InSeq(x, s) == \E i \in 1..Len(s) : s[i] = x

KeepAll(all, k) == SubSeq(all, 1, k)

\* the loop that removes duplicates while preserving order, over the first
\* k entries
RECURSIVE unique_queries(_, _)
unique_queries(all, k) ==
  IF k = 0 THEN <<>>
  ELSE LET u == unique_queries(all, k - 1)
       IN IF InSeq(all[k], u) THEN u ELSE Append(u, all[k])

generate_search_queries(name, position) ==
  unique_queries(all_queries(name, position), Len(all_queries(name, position)))

InitQueries ==
  /\ Quiet
  /\ \E n \in QueryNames, pos \in QueryPositions :
       call = [fn |-> "generate_search_queries", name |-> n, position |-> pos,
               done |-> FALSE, out |-> <<>>]

GenerateSearchQueries ==
  /\ call.fn = "generate_search_queries"
  /\ ~call.done
  /\ call' = [call EXCEPT !.done = TRUE,
                          !.out = generate_search_queries(call.name, call.position)]
  /\ UNCHANGED <<pipelineVars, qaVars>>

NextQueries == GenerateSearchQueries

SpecQueries == InitQueries /\ [][NextQueries]_vars

\* --------------------- SearchService._verify_politician_match (search_service.py)
\* a text is the sequence of its words; the extract is a few words that
\* matter followed by a number of other words
MaxTextLen == 3

WordThreshold == 100

MinPositionLen == 3

TextTokens == {"Senator", "mp", "cruz", "doe", "j.", "juan", "official"}

FillerCounts == {0, 98, 100}

VerifyNames == {<<"Juan", "Cruz">>, <<"Jane", "Doe">>, <<"Cruz">>}

VerifyPositions == {"", "MP", "Senator", "Chairman"}

\* str.lower() on a word
LowerWord(w) ==
  CASE w = "Senator" -> "senator"
    [] w = "MP" -> "mp"
    [] w = "Chairman" -> "chairman"
    [] w = "Juan" -> "juan"
    [] w = "Jane" -> "jane"
    [] w = "Cruz" -> "cruz"
    [] w = "Doe" -> "doe"
    [] OTHER -> w

LowerText(s) == [i \in 1..Len(s) |-> LowerWord(s[i])]

\* len(position)
PositionLen(position) ==
  CASE position = "" -> 0
    [] position = "MP" -> 2
    [] position = "Senator" -> 7
    [] OTHER -> 8

\* first character of a first name, followed by a full stop
InitialOf(w) == IF w \in {"juan", "jane"} THEN "j." ELSE "?."

common_surnames == {"cruz"}

political_terms == {"senator", "official"}

\* needle in text, for a needle of whole words
Contains(text, needle) ==
  \E i \in 0..(Len(text) - Len(needle)) :
    \A k \in 1..Len(needle) : text[i + k] = needle[k]

PositionIgnored(text, position) == FALSE

\* position and len(position) > 3 and position.lower() in text_lower
PositionIndicates(text, position) ==
  /\ position # ""
  /\ PositionLen(position) > MinPositionLen
  /\ Contains(LowerText(text), <<LowerWord(position)>>)

verify_politician_match(extract, name, position) ==
  LET text_lower == LowerText(extract.words)
      name_lower == LowerText(name)
      surname == name_lower[Len(name_lower)]
      wordCount == Len(extract.words) + extract.filler
  IN IF PositionIndicates(extract.words, position) /\ Contains(text_lower, <<surname>>)
     THEN TRUE
     ELSE IF Contains(text_lower, name_lower) THEN TRUE
     ELSE IF Contains(text_lower, <<surname>>)
          THEN IF surname \notin common_surnames THEN TRUE
               ELSE IF wordCount > WordThreshold
                    THEN IF Len(name_lower) > 1
                            /\ Contains(text_lower, <<InitialOf(name_lower[1]), surname>>)
                         THEN TRUE
                         ELSE \E i \in 1..Len(text_lower) : text_lower[i] \in political_terms
                    ELSE FALSE
          ELSE FALSE

InitVerify ==
  /\ Quiet
  /\ \E w \in SeqsUpTo(TextTokens, MaxTextLen), f \in FillerCounts,
        n \in VerifyNames, pos \in VerifyPositions :
       call = [fn |-> "verify", text |-> [words |-> w, filler |-> f], name |-> n,
               position |-> pos, done |-> FALSE, out |-> FALSE]

VerifyPoliticianMatch ==
  /\ call.fn = "verify"
  /\ ~call.done
  /\ call' = [call EXCEPT !.done = TRUE,
                          !.out = verify_politician_match(call.text, call.name, call.position)]
  /\ UNCHANGED <<pipelineVars, qaVars>>

NextVerify == VerifyPoliticianMatch

SpecVerify == InitVerify /\ [][NextVerify]_vars

\* ------------------------- SearchService.search, _google_search (search_service.py)
\* the provider's answer is a ranked list of URLs; each URL's page gives a
\* snippet ("ok"), gives none ("nosnippet") or fails to load ("exc")
MaxNum == 2

ProviderFactor == 3

CandidateFactor == 2

ProviderEntries ==
  {[url |-> UrlArticle, page |-> "ok"], [url |-> UrlArticle, page |-> "nosnippet"],
   [url |-> UrlArticle, page |-> "exc"], [url |-> UrlDocPdf, page |-> "ok"]}

SearchQueries == {"q1"}

\* for url in search(query, num_results=num_results*3): keep the website
\* URLs, stop at num_results*2 of them; the value is the ranks kept
RECURSIVE search_urls(_, _, _, _)
search_urls(provider, n, k, acc) ==
  IF k > Len(provider) THEN acc
  ELSE IF is_website_url([kind |-> "str", text |-> provider[k].url])
       THEN IF Len(acc) + 1 >= n * CandidateFactor THEN Append(acc, k)
            ELSE search_urls(provider, n, k + 1, Append(acc, k))
       ELSE search_urls(provider, n, k + 1, acc)

EnoughNever(results, n) == FALSE

\* if len(search_results) >= num_results: break
Enough(results, n) == Len(results) >= n

RECURSIVE StopAtFailure(_, _, _, _, _)
StopAtFailure(provider, cands, n, i, st) ==
  IF i > Len(cands) \/ Enough(st.picked, n) THEN st
  ELSE LET k == cands[i]
           got == [st EXCEPT !.fetched = Append(st.fetched, k)]
       IN IF provider[k].page = "exc" THEN got
          ELSE StopAtFailure(provider, cands, n, i + 1,
                 IF provider[k].page = "ok"
                 THEN [got EXCEPT !.picked = Append(got.picked, k)]
                 ELSE got)

\* the loop over search_urls: picked are the ranks that became results,
\* fetched the ranks whose page was requested
RECURSIVE process_urls(_, _, _, _, _)
process_urls(provider, cands, n, i, st) ==
  IF i > Len(cands) \/ Enough(st.picked, n) THEN st
  ELSE LET k == cands[i]
           got == [st EXCEPT !.fetched = Append(st.fetched, k)]
       IN process_urls(provider, cands, n, i + 1,
            IF provider[k].page = "ok"
            THEN [got EXCEPT !.picked = Append(got.picked, k)]
            ELSE got)

\* _google_search; an exception of the provider gives the empty list
google_search(provider, fails, n) ==
  IF fails THEN [picked |-> <<>>, fetched |-> <<>>]
  ELSE process_urls(provider, search_urls(provider, n, 1, <<>>), n, 1,
                    [picked |-> <<>>, fetched |-> <<>>])

\* search: the results of _google_search, each with the query added
search(q, provider, fails, n) ==
  LET g == google_search(provider, fails, n)
  IN [results |-> [i \in 1..Len(g.picked) |->
                     [url |-> provider[g.picked[i]].url, title |-> "title",
                      snippet |-> "snippet", query |-> q]],
      picked |-> g.picked,
      fetched |-> g.fetched]

InitSearch ==
  /\ Quiet
  /\ \E q \in SearchQueries, n \in 0..MaxNum, fails \in BOOLEAN :
       \E provider \in SeqsUpTo(ProviderEntries, n * ProviderFactor) :
         call = [fn |-> "search", query |-> q, num_results |-> n, provider |-> provider,
                 fails |-> fails, done |-> FALSE,
                 out |-> [results |-> <<>>, picked |-> <<>>, fetched |-> <<>>]]

SearchCall ==
  /\ call.fn = "search"
  /\ ~call.done
  /\ call' = [call EXCEPT !.done = TRUE,
                          !.out = search(call.query, call.provider, call.fails, call.num_results)]
  /\ UNCHANGED <<pipelineVars, qaVars>>

NextSearch == SearchCall

SpecSearch == InitSearch /\ [][NextSearch]_vars

\* ======================================================= name normalization
\* SearchService.normalize_politician_name, one action per stage of the chain.
\* An exception is first in flight (call.exc names the stage that raised) and
\* the next step is the handler that encloses that stage in the source.
MaxWikiResults == 2

\* the text of the LLM's reply
LLMReplies == Names \cup {"", " Juana Doe ", "Juana Doe"}

\* the title of a Wikipedia summary
WikiTitles == {"Jane Doe (politician)"}

NoUrl == "none"

WikiUrl == "https://en.wikipedia.org/wiki/"

NotInLocals == "unset"

\* no text came back from the LLM (history: call.reply keeps the text)
NoReply == "none"

\* str.strip() on the replies of the model
Strip(s) == IF s = " Juana Doe " THEN "Juana Doe" ELSE s

\* _normalize_name_with_llm after the query: the stripped reply when it
\* differs from the name in more than letter case, else the name
normalize_name_with_llm(name, result) ==
  IF ~result.error /\ Lower(Strip(result.response)) # Lower(name)
  THEN Strip(result.response)
  ELSE name

LLMChangedNever(c) == FALSE

\* "normalized_name and normalized_name != name"
LLMChanged(c) ==
  /\ c.normalized # NotInLocals
  /\ c.normalized # ""
  /\ c.normalized # c.name

NormReturn(c, name, url) ==
  [c EXCEPT !.pc = "done", !.out = [name |-> name, url |-> url]]

InitNormalize ==
  /\ Quiet
  /\ \E n \in Names, pos \in Positions \cup {""} :
       call = [fn |-> "normalize", name |-> n, position |-> pos, pc |-> "gather",
               context |-> FALSE, reply |-> NoReply, normalized |-> NotInLocals,
               left |-> 0,
               exc |-> "none", raised |-> FALSE,
               out |-> [name |-> "", url |-> NoUrl]]

NormStep(stage) ==
  /\ call.fn = "normalize"
  /\ call.pc = stage
  /\ call.exc = "none"
  /\ UNCHANGED <<pipelineVars, qaVars>>

\* Step 1: _gather_politician_context
NormGather ==
  /\ NormStep("gather")
  /\ \/ call' = [call EXCEPT !.exc = "gather"]
     \/ \E found \in BOOLEAN :
          call' = [call EXCEPT !.context = found,
                               !.pc = IF found THEN "llm" ELSE "lookup"]

\* Step 2: _normalize_name_with_llm, called only with a context
NormLLM ==
  /\ NormStep("llm")
  /\ \/ call' = [call EXCEPT !.exc = "llm"]
     \/ \E result \in [error : BOOLEAN, response : LLMReplies] :
          LET c == [call EXCEPT !.reply = IF result.error THEN NoReply ELSE result.response,
                                !.normalized = normalize_name_with_llm(call.name, result)]
          IN call' = [c EXCEPT !.pc = IF LLMChanged(c) THEN "verify_llm" ELSE "lookup"]

\* Step 2, the page of the LLM's name
NormVerifyLLM ==
  /\ NormStep("verify_llm")
  /\ \/ call' = [call EXCEPT !.exc = "verify_llm"]
     \/ call' = NormReturn(call, call.normalized, WikiUrl)
     \/ call' = [call EXCEPT !.pc = "lookup"]

\* Step 3: the page of the original name, verified against the politician
NormLookup ==
  /\ NormStep("lookup")
  /\ \/ call' = [call EXCEPT !.exc = "lookup"]
     \/ \E t \in WikiTitles : call' = NormReturn(call, t, WikiUrl)
     \/ call' = [call EXCEPT !.pc = "search"]

\* Step 4: self.search(search_query, num_results=5); a failed search is []
NormSearch ==
  /\ NormStep("search")
  /\ \E k \in 0..MaxWikiResults : call' = [call EXCEPT !.left = k, !.pc = "results"]

\* Step 4, one Wikipedia result of the search
NormResult ==
  /\ NormStep("results")
  /\ call.left > 0
  /\ \/ call' = [call EXCEPT !.exc = "result"]
     \/ \E t \in WikiTitles : call' = NormReturn(call, t, WikiUrl)
     \/ call' = [call EXCEPT !.left = @ - 1]

\* Step 5 and the final return
NormFallback ==
  /\ NormStep("results")
  /\ call.left = 0
  /\ call' = NormReturn(call, IF LLMChanged(call) THEN call.normalized ELSE call.name, NoUrl)

OuterExceptReraises(c) == [c EXCEPT !.exc = "none", !.pc = "done", !.raised = TRUE]

\* except Exception around the whole chain: return name, None
OuterExcept(c) == NormReturn([c EXCEPT !.exc = "none"], c.name, NoUrl)

\* the handler that encloses the stage that raised
NormHandle ==
  /\ call.fn = "normalize"
  /\ call.exc # "none"
  /\ call' = CASE call.exc = "gather" -> [call EXCEPT !.exc = "none", !.pc = "lookup"]
               [] call.exc = "llm" ->
                    [call EXCEPT !.exc = "none", !.normalized = call.name, !.pc = "lookup"]
               [] call.exc = "verify_llm" -> [call EXCEPT !.exc = "none", !.pc = "lookup"]
               [] call.exc = "lookup" -> OuterExcept(call)
               [] call.exc = "result" -> [call EXCEPT !.exc = "none", !.left = @ - 1]
  /\ UNCHANGED <<pipelineVars, qaVars>>

NextNormalize ==
  \/ NormGather
  \/ NormLLM
  \/ NormVerifyLLM
  \/ NormLookup
  \/ NormSearch
  \/ NormResult
  \/ NormFallback
  \/ NormHandle

SpecNormalize == InitNormalize /\ [][NextNormalize]_vars

\* ============================================================ construction
\* LLMService.__init__, PoliticianPipeline.__init__ and
\* ResearchPipeline.__init__ with every state of the configured credentials.
\* None is the string "None"; "" is the empty string.
KeyValues == {"None", "", "key"}

SearchKeyValues == {"None", "skey"}

NoService == "None"

Truthy(v) == v \notin {"None", ""}

\* Python's a or b
Or(a, b) == IF Truthy(a) THEN a ELSE b

\* LLMService.__init__: the key is the argument, else the setting, else the
\* environment variable; without one it raises ValueError
LLMService_init(api_key, settings_key, env_key) ==
  LET key == Or(Or(api_key, settings_key), env_key)
  IN IF ~Truthy(key)
     THEN [raised |-> TRUE, service |-> NoService]
     ELSE [raised |-> FALSE, service |-> "LLMService"]

LLMAsGiven(llm_service, settings_key, env_key) ==
  [raised |-> FALSE, service |-> llm_service]

\* PoliticianPipeline.__init__: self.llm_service = llm_service or LLMService()
LLMOrNew(llm_service, settings_key, env_key) ==
  IF Truthy(llm_service)
  THEN [raised |-> FALSE, service |-> llm_service]
  ELSE LLMService_init("None", settings_key, env_key)

InitConstruct ==
  /\ Quiet
  /\ \E fn \in {"LLMService", "ResearchPipeline"}, a \in KeyValues, s \in KeyValues,
        e \in KeyValues, sa \in SearchKeyValues, ss \in SearchKeyValues :
       /\ fn = "LLMService" => sa = "None" /\ ss = "None"
       /\ fn = "ResearchPipeline" => a = "None"
       /\ call = [fn |-> fn, api_key |-> a, settings_key |-> s, env_key |-> e,
                  search_api_key |-> sa, settings_search_key |-> ss,
                  pc |-> "start", search_service |-> NoService,
                  llm_service |-> NoService, politician_pipeline |-> NoService,
                  raised |-> FALSE, stages |-> 0]

\* LLMService(api_key) called on its own
ConsLLMService ==
  /\ call.fn = "LLMService"
  /\ call.pc = "start"
  /\ LET r == LLMService_init(call.api_key, call.settings_key, call.env_key)
     IN call' = [call EXCEPT !.llm_service = r.service, !.raised = r.raised,
                             !.pc = IF r.raised THEN "failed" ELSE "constructed"]
  /\ UNCHANGED <<pipelineVars, qaVars>>

\* ResearchPipeline.__init__: the search service
ConsSearchService ==
  /\ call.fn = "ResearchPipeline"
  /\ call.pc = "start"
  /\ call' = [call EXCEPT !.search_api_key = Or(call.search_api_key, call.settings_search_key),
                          !.search_service = "SearchService",
                          !.pc = "llm_service"]
  /\ UNCHANGED <<pipelineVars, qaVars>>

\* ResearchPipeline.__init__: try LLMService() except ValueError: None
ConsTryLLM ==
  /\ call.fn = "ResearchPipeline"
  /\ call.pc = "llm_service"
  /\ LET r == LLMService_init("None", call.settings_key, call.env_key)
     IN call' = [call EXCEPT !.llm_service = IF r.raised THEN NoService ELSE r.service,
                             !.pc = "politician_pipeline"]
  /\ UNCHANGED <<pipelineVars, qaVars>>

\* ResearchPipeline.__init__: PoliticianPipeline(search_service, llm_service),
\* whose ValueError nothing catches
ConsPoliticianPipeline ==
  /\ call.fn = "ResearchPipeline"
  /\ call.pc = "politician_pipeline"
  /\ LET r == LLMOrNew(call.llm_service, call.settings_key, call.env_key)
     IN call' = IF r.raised
                THEN [call EXCEPT !.raised = TRUE, !.pc = "failed"]
                ELSE [call EXCEPT !.politician_pipeline = [llm_service |-> r.service],
                                  !.pc = "constructed"]
  /\ UNCHANGED <<pipelineVars, qaVars>>

\* research_politician on the constructed pipeline: its first stage runs
ConsResearch ==
  /\ call.fn = "ResearchPipeline"
  /\ call.pc = "constructed"
  /\ call' = [call EXCEPT !.stages = 1, !.pc = "researching"]
  /\ UNCHANGED <<pipelineVars, qaVars>>

NextConstruct ==
  \/ ConsLLMService
  \/ ConsSearchService
  \/ ConsTryLLM
  \/ ConsPoliticianPipeline
  \/ ConsResearch

SpecConstruct == InitConstruct /\ [][NextConstruct]_vars

\* ============================================================ fetch_content
\* SearchService.fetch_content with its two tiers.  A text is its origin,
\* whether it is the empty string, and its number of whitespace-separated
\* words (a text of blanks is not empty and has no words).
MinWords == 100

WordCounts == {0, 1, MinWords - 1, MinWords, MinWords + 1}

EmptyText == [origin |-> "none", empty |-> TRUE, words |-> 0]

TextsOf(origin) == {[origin |-> origin, empty |-> FALSE, words |-> w] : w \in WordCounts}

\* what a tier does with the page: it raises, or it extracts a text
TierOutcomes(origin) ==
  {[raises |-> TRUE, text |-> EmptyText]}
    \cup {[raises |-> FALSE, text |-> t] : t \in TextsOf(origin) \cup {EmptyText}}

\* _scrape_with_requests: its own handler turns an exception into ""
scrape_with_requests(outcome) == IF outcome.raises THEN EmptyText ELSE outcome.text

NeedsRenderUpTo(content) == content.empty \/ content.words <= MinWords

\* "not content or len(content.split()) < 100"
NeedsRender(content) == content.empty \/ content.words < MinWords

InitFetch ==
  /\ Quiet
  /\ \E u \in Urls, light \in TierOutcomes("requests"), render \in TierOutcomes("selenium"),
        importFails \in BOOLEAN :
       call = [fn |-> "fetch_content", url |-> u, light |-> light, render |-> render,
               importFails |-> importFails, pc |-> "requests", content |-> EmptyText,
               renders |-> 0, exc |-> FALSE, raised |-> FALSE, out |-> EmptyText]

FetchStep(pc) ==
  /\ call.fn = "fetch_content"
  /\ call.pc = pc
  /\ ~call.exc
  /\ UNCHANGED <<pipelineVars, qaVars>>

\* content = self._scrape_with_requests(url), then the test for the second tier
FetchRequests ==
  /\ FetchStep("requests")
  /\ LET content == scrape_with_requests(call.light)
     IN call' = [call EXCEPT !.content = content,
                             !.pc = IF NeedsRender(content) THEN "selenium" ELSE "return"]

\* content = self._scrape_with_selenium(url): the imports are outside its
\* try, its own handler turns any other exception into ""
FetchSelenium ==
  /\ FetchStep("selenium")
  /\ IF call.importFails
     THEN call' = [call EXCEPT !.renders = @ + 1, !.exc = TRUE]
     ELSE call' = [call EXCEPT !.renders = @ + 1,
                               !.content = IF call.render.raises THEN EmptyText
                                           ELSE call.render.text,
                               !.pc = "return"]

\* return content
FetchReturn ==
  /\ FetchStep("return")
  /\ call' = [call EXCEPT !.out = call.content, !.pc = "done"]

\* except Exception: return ""
FetchExcept ==
  /\ call.fn = "fetch_content"
  /\ call.exc
  /\ call' = [call EXCEPT !.exc = FALSE, !.out = EmptyText, !.pc = "done"]
  /\ UNCHANGED <<pipelineVars, qaVars>>

NextFetch ==
  \/ FetchRequests
  \/ FetchSelenium
  \/ FetchReturn
  \/ FetchExcept

SpecFetch == InitFetch /\ [][NextFetch]_vars

\* ================================================================== claims
\* a call of research_politician has returned to its caller
PipelineDone(r) == r.invoked /\ r.pc \in {"respond", "done"}

\* the call returned a ResearchResult that existed before it started
Reused(r) == r.result.kind = "rr" /\ r.result.id # r.newId

Age(id) == now - rows[id].created_at

\* C1: research_politician returns normally whatever fails; the value is a
\* stored ResearchResult or a diagnostic dict with an 'error' entry
C1_NeverRaises ==
  \A p \in Procs :
    PipelineDone(run[p]) =>
      \/ run[p].result.kind = "rr" /\ run[p].result.id \in 1..Len(rows)
      \/ run[p].result.kind = "diag" /\ "error" \in run[p].result.keys

C1_Witness ==
  \E p \in Procs :
    /\ PipelineDone(run[p])
    /\ run[p].raised \in {"get_or_create", "enrich", "persist"}
    /\ run[p].result.kind = "diag"

\* the newest stored result was created by an earlier call with the same
\* name argument and position, and its age is within the call's max_age
SecondCall(r) ==
  /\ PipelineDone(r)
  /\ ~r.force
  /\ r.prior.id # 0
  /\ r.prior.arg = r.arg
  /\ IExact(rows[r.prior.id].position, r.position)
  /\ Age(r.prior.id) <= r.pmax * DayUnits

C3_Original ==
  \A p \in Procs :
    LET r == run[p]
    IN /\ (r.pc = "respond" /\ ~r.invoked /\ Reused(r))
            => Age(r.result.id) < r.maxAge * DayUnits
       /\ (PipelineDone(r) /\ Reused(r))
            => Age(r.result.id) < r.pmax * DayUnits
       /\ ( /\ PipelineDone(r) /\ r.pol # 0 /\ ~r.created /\ ~r.cacheErr
            /\ LatestResearch(r.pol, r.position) # 0
            /\ r.newId = 0
            /\ Age(LatestResearch(r.pol, r.position)) = r.pmax * DayUnits - 1 )
            => Reused(r)

\* C4 as stated: a forced refresh (POST) never returns a stored result
C4_Original ==
  \A p \in Procs :
    (run[p].pc \in {"respond", "done"} /\ run[p].force) => ~Reused(run[p])

\* C5 as stated: a stored result older than the caller's max_age is never
\* the result of the request
C5_Original ==
  \A p \in Procs :
    (run[p].pc \in {"respond", "done"} /\ Reused(run[p]))
      => Age(run[p].result.id) <= run[p].maxAge * DayUnits

\* C6: the analysis calls of a run are made in the order background,
\* accomplishments, criticisms, summary; the summary call receives the three
\* earlier outputs; a ResearchResult is created only after the summary call
C6_StagedOrder ==
  \A p \in Procs :
    LET r == run[p]
    IN /\ Len(r.calls) <= Len(Aspects)
       /\ \A i \in 1..Len(r.calls) : r.calls[i].aspect = Aspects[i]
       /\ Len(r.calls) = 4 =>
            /\ r.sumInput = <<r.background, r.accomplishments, r.criticisms>>
            /\ \A i \in 1..3 : r.sumInput[i] # NoField
       /\ r.newId # 0 =>
            /\ Len(r.calls) = 4
            /\ rows[r.newId].summary = r.summary
            /\ r.summary # NoField

C6_Witness ==
  \E p \in Procs : run[p].newId # 0 /\ run[p].pc = "done"

AdapterFailed(r, k) == Len(r.calls) >= k /\ r.calls[k].outcome \in {"empty", "exc"}

AdapterAnswered(r, k) == Len(r.calls) >= k /\ r.calls[k].outcome = "text"

\* the accomplishments call failed in the LLM adapter, the background and
\* criticisms calls answered, and nothing else raised
AccomplishmentsFailedOnly(r) ==
  /\ PipelineDone(r)
  /\ AdapterFailed(r, 2)
  /\ AdapterAnswered(r, 1)
  /\ r.raised = "none"
  /\ Len(r.calls) >= 3 => r.calls[3].outcome = "text"

C9_Original ==
  \A p \in Procs :
    (PipelineDone(run[p]) /\ run[p].raised # "none") =>
      /\ run[p].result.kind = "diag"
      /\ {"name", "position", "error"} \subseteq run[p].result.keys

\* C9 as amended: an exception before analysis (entity lookup or creation,
\* enrichment) returns a diagnostic with name, position and error; an
\* exception during analysis or persistence returns a diagnostic with
\* politician, error and content_list
C9_FailureDiagnostic ==
  \A p \in Procs :
    LET r == run[p]
    IN (PipelineDone(r) /\ r.raised # "none") =>
         /\ r.result.kind = "diag"
         /\ r.raised \in {"get_or_create", "enrich"} =>
              r.result.keys = {"name", "position", "error"}
         /\ r.raised \notin {"get_or_create", "enrich"} =>
              /\ r.result.keys = {"politician", "error", "content_list"}
              /\ r.result.content = r.contents

C9_Witness ==
  \E p \in Procs :
    /\ PipelineDone(run[p])
    /\ run[p].raised = "persist"
    /\ run[p].result.keys = {"politician", "error", "content_list"}

\* C10: when the first response and the response after the supplementary
\* search both begin with the search sentinel, the answer returned and
\* stored is exactly "I don't know."
C10_BoundedRetry ==
  ( /\ qa.pc = "answered"
    /\ qa.status = 201
    /\ startswith(qa.first, "SEARCH_QUERY:")
    /\ startswith(qa.second, "SEARCH_QUERY:") )
  => qa.final = IDontKnow /\ qandas[Len(qandas)] = IDontKnow

C10_Witness ==
  /\ qa.pc = "answered"
  /\ qa.status = 201
  /\ startswith(qa.first, "SEARCH_QUERY:")
  /\ startswith(qa.second, "SEARCH_QUERY:")
  /\ Len(qa.second) > 1

\* the handler has produced its response for the question
QAAnswered == qa.pc = "answered"

\* the bounds on LLM calls and search rounds, and when the second round runs
QARetryBound ==
  /\ qa.llmCalls <= 2
  /\ qa.rounds <= 1
  /\ (qa.pc \in {"finalize", "answered"} /\ qa.llmCalls > 0) =>
       /\ qa.rounds = 1 <=> startswith(qa.first, "SEARCH_QUERY:")
       /\ qa.llmCalls = 2 <=> startswith(qa.first, "SEARCH_QUERY:")

\* C11 as stated: at most two LLM calls and one search round per question,
\* the second round exactly when the first response begins with the
\* sentinel, and every handled question ends with one stored answer
C11_Original ==
  /\ QARetryBound
  /\ QAAnswered => Len(qandas) = qa.before + 1

\* C11 as amended: the same bounds; the handler always terminates, and it
\* stores exactly one answer when no LLM construction or call raised, and
\* none when one did
C11_RetryBound ==
  /\ [](/\ QARetryBound
        /\ (QAAnswered /\ qa.status = 201) => Len(qandas) = qa.before + 1
        /\ (QAAnswered /\ qa.status # 201) => Len(qandas) = qa.before)
  /\ (qa.pc = "ask" ~> QAAnswered)

C11_Witness ==
  /\ QAAnswered
  /\ qa.status = 201
  /\ qa.rounds = 1
  /\ qa.llmCalls = 2
  /\ Len(qandas) = qa.before + 1

\* the conditions of C12 read off a parsed URL
UrlAbsolute(u) ==
  /\ ~(u # <<>> /\ u[1] \in {"/", "//"})
  /\ urlparse(u).scheme # ""
  /\ urlparse(u).netloc # <<>>

UrlHasFileParameter(u) == FileParamMatch(urlparse(u).query)

\* C12 as stated: is_website_url is true exactly for an absolute URL whose
\* path has no excluded extension and whose query has no filename/filetype
\* parameter naming a pdf/doc/jpg/png file, and false for anything else
C12_Original ==
  (call.fn = "is_website_url" /\ call.done) =>
    (call.out <=>
       /\ call.arg.kind = "str"
       /\ UrlAbsolute(call.arg.text)
       /\ ~PathExcluded(urlparse(call.arg.text).path)
       /\ ~UrlHasFileParameter(call.arg.text))

\* position of the first occurrence of x in s
FirstIndex(x, s) == CHOOSE i \in 1..Len(s) : s[i] = x /\ \A j \in 1..(i - 1) : s[j] # x

QueriesDone == call.fn = "generate_search_queries" /\ call.done

\* C13: the generated list has no duplicate, holds exactly the template
\* queries in the order of their first occurrence, contains "<name>
\* <position>" and "<name> biography", and holds the four position queries
\* exactly when the position is not blank
C13_QueryGeneration ==
  QueriesDone =>
    LET q == call.out
        n == call.name
        pos == call.position
        templates == all_queries(n, pos)
    IN /\ \A i, j \in 1..Len(q) : q[i] = q[j] => i = j
       /\ \A i \in 1..Len(templates) : InSeq(templates[i], q)
       /\ \A i \in 1..Len(q) : InSeq(q[i], templates)
       /\ \A i, j \in 1..Len(q) :
            i < j => FirstIndex(q[i], templates) < FirstIndex(q[j], templates)
       /\ InSeq(n \o SP \o pos, q)
       /\ InSeq(n \o SP \o <<"biography">>, q)
       /\ HasPosition(pos) => \A k \in 1..4 : InSeq(position_queries(n, pos)[k], q)
       /\ ~HasPosition(pos) => \A k \in 1..4 : ~InSeq(position_queries(n, pos)[k], q)

\* a call whose templates repeat a string: the position is "biography"
C13_Witness ==
  /\ QueriesDone
  /\ call.position = <<"biography">>
  /\ call.name = <<"Jane", " ", "Doe">>
  /\ Len(call.out) < Len(all_queries(call.name, call.position))
  /\ Len(call.out) = 19

VerifyDone == call.fn = "verify" /\ call.done

\* the words of the extract, lower-cased
VerifyText == LowerText(call.text.words)

VerifySurname == LowerWord(call.name[Len(call.name)])

\* the extract names the position
PositionInText == call.position # "" /\ Contains(VerifyText, <<LowerWord(call.position)>>)

SurnameInText == Contains(VerifyText, <<VerifySurname>>)

\* the only evidence is a common surname: no position, no role keyword, no
\* full name, no initial with the surname
OnlyCommonSurname ==
  /\ SurnameInText
  /\ VerifySurname \in common_surnames
  /\ ~PositionInText
  /\ \A i \in 1..Len(VerifyText) : VerifyText[i] \notin political_terms
  /\ ~Contains(VerifyText, LowerText(call.name))
  /\ ~Contains(VerifyText, <<"j.", VerifySurname>>)

\* C14 as stated: true whenever the extract contains the position keyword
\* and the surname; false when the only evidence is a common surname
C14_Original ==
  VerifyDone =>
    /\ (PositionInText /\ SurnameInText) => call.out
    /\ OnlyCommonSurname => ~call.out

\* C14 as amended: true whenever the extract contains the surname and a
\* position keyword of more than three characters; false when the only
\* evidence is a common surname
C14_NameVerification ==
  VerifyDone =>
    /\ (PositionInText /\ PositionLen(call.position) > 3 /\ SurnameInText) => call.out
    /\ OnlyCommonSurname => ~call.out

\* a common surname in a short extract, accepted because of the position
C14_Witness ==
  /\ VerifyDone
  /\ call.position = "Senator"
  /\ PositionInText
  /\ SurnameInText
  /\ VerifySurname \in common_surnames
  /\ ~Contains(VerifyText, LowerText(call.name))
  /\ call.text.filler = 0
  /\ call.out

SearchDone == call.fn = "search" /\ call.done

\* C15: search returns at most num_results entries, each with url, title,
\* a non-empty snippet and the query, in the provider's ranking order, and
\* no page is requested once num_results entries are collected
C15_SearchBound ==
  SearchDone =>
    LET res == call.out.results
        picked == call.out.picked
        fetched == call.out.fetched
        n == call.num_results
    IN /\ Len(res) <= n
       /\ \A i \in 1..Len(res) :
            /\ res[i].url = call.provider[picked[i]].url
            /\ call.provider[picked[i]].page = "ok"
            /\ res[i].snippet # ""
            /\ res[i].query = call.query
            /\ DOMAIN res[i] = {"url", "title", "snippet", "query"}
       /\ \A i, j \in 1..Len(picked) : i < j => picked[i] < picked[j]
       /\ \A i \in 1..Len(fetched) :
            Cardinality({j \in 1..Len(picked) : picked[j] < fetched[i]}) < n

\* the provider ranks more usable pages than asked for, after an unusable one
C15_Witness ==
  /\ SearchDone
  /\ call.num_results = 1
  /\ ~call.fails
  /\ Len(call.provider) = 3
  /\ call.provider[1].page = "exc"
  /\ call.provider[2].page = "ok"
  /\ call.provider[3].page = "ok"
  /\ call.provider[3].url = UrlArticle
  /\ call.out.picked = <<2>>
  /\ call.out.fetched = <<1, 2>>

NormDone == call.fn = "normalize" /\ call.pc = "done"

NormStagesAfter(stage) ==
  CASE stage = "gather" -> {"lookup"}
    [] stage = "llm" -> {"lookup"}
    [] stage = "verify_llm" -> {"lookup"}
    [] stage = "lookup" -> {}
    [] stage = "result" -> {"results"}

\* C16: normalize_politician_name never raises and returns a pair of a name
\* and a reference URL or none; when a stage raises, the chain goes on with
\* a later stage or returns the original name with no reference URL.
C16_NeverFailsHard ==
  /\ [](call.fn = "normalize" => ~call.raised)
  /\ [](NormDone => /\ call.out.name \in Names \cup WikiTitles \cup {"Juana Doe"}
                    /\ call.out.url \in {NoUrl, WikiUrl})
  /\ [][(call.fn = "normalize" /\ call.exc # "none") =>
          \/ call'.pc \in NormStagesAfter(call.exc) /\ call'.exc = "none"
          \/ /\ call'.pc = "done"
             /\ call'.out = [name |-> call.name, url |-> NoUrl]]_vars

\* a lookup of the original name raised after the LLM had proposed another
\* name, and the call returned the original name
C16_Witness ==
  /\ NormDone
  /\ call.normalized = "Juana Doe"
  /\ call.out = [name |-> call.name, url |-> NoUrl]
  /\ call.context

ConstructCall == call.fn \in {"LLMService", "ResearchPipeline"}

CredentialMissing ==
  /\ ConstructCall
  /\ ~Truthy(call.api_key)
  /\ ~Truthy(call.settings_key)
  /\ ~Truthy(call.env_key)

FetchDone == call.fn = "fetch_content" /\ call.pc = "done"

\* what each tier contributes: its text, or the empty string when it raises
LightText == IF call.light.raises THEN EmptyText ELSE call.light.text

RenderText ==
  IF call.importFails \/ call.render.raises THEN EmptyText ELSE call.render.text

\* C18: fetch_content returns the lightweight text without a render pass
\* exactly when that text has at least 100 words; otherwise it runs the
\* render pass once and returns its result; a tier that raises contributes
\* the empty string and fetch_content never raises.
C18_FetchEscalation ==
  /\ call.fn = "fetch_content" => ~call.raised /\ call.renders <= 1
  /\ FetchDone =>
       IF LightText.words >= MinWords
       THEN call.renders = 0 /\ call.out = LightText
       ELSE call.renders = 1 /\ call.out = RenderText

\* the lightweight text had 99 words and the render pass could not be
\* imported: the call returned the empty string
C18_Witness ==
  /\ FetchDone
  /\ ~call.light.raises
  /\ call.light.text.words = MinWords - 1
  /\ call.importFails
  /\ call.renders = 1
  /\ call.out = EmptyText

\* the pipeline's own cache check found a recent result and returned it
PipelineHit(r) == PipelineDone(r) /\ r.raised = "none" /\ Reused(r)

\* the original statement: a cache hit returns before normalization or any
\* other external call has run
C19_Original ==
  \A p \in Procs :
    PipelineHit(run[p]) =>
      /\ run[p].external = {}
      /\ ~run[p].fetched
      /\ run[p].calls = <<>>

\* C19: the pipeline normalizes the name, finds or creates the politician
\* and only then checks the cache; on a cache hit it returns the stored
\* result with normalization as the only external stage that has run: no
\* enrichment, search, fetch or LLM analysis.
C19_CacheAfterNormalization ==
  \A p \in Procs :
    /\ run[p].pc = "cache_check" => run[p].external = {"normalize"}
    /\ PipelineHit(run[p]) =>
         /\ run[p].external = {"normalize"}
         /\ ~run[p].fetched
         /\ run[p].calls = <<>>
         /\ ~run[p].created

\* a pipeline call has returned a stored result from its own cache check
C19_Witness ==
  \E p \in Procs :
    /\ PipelineHit(run[p])
    /\ run[p].pc = "done"
    /\ run[p].external = {"normalize"}

\* C20 as stated: no two Politician rows have names that are equal ignoring
\* letter case, and a call whose resolved name matches an existing row up
\* to case does not create a row
C20_Original ==
  /\ \A i, j \in 1..Len(politicians) :
       i # j => ~IExact(politicians[i].name, politicians[j].name)
  /\ \A p \in Procs :
       run[p].pc = "create_politician" => IExactMatches(run[p].name) = {}

\* two rows of the same politician and position, both recent
DuplicateRecent(i, j) ==
  /\ i # j
  /\ rows[i].pol = rows[j].pol
  /\ IExact(rows[i].position, rows[j].position)
  /\ is_recent(rows[i].created_at, DefaultMaxAge)
  /\ is_recent(rows[j].created_at, DefaultMaxAge)

\* C21: nothing serialises the cache check and the create: an invocation
\* that has passed the cache check inserts its ResearchResult whatever rows
\* other invocations have created meanwhile, so two concurrent invocations
\* for the same name and position each create a row.
C21_CheckCreateRace ==
  [][\A p \in Procs :
       (run[p].pc = "persist" /\ run'[p].pc # "persist" /\ run'[p].raised = "none")
         => /\ rows' = Append(rows, NewRow(run[p]))
            /\ run'[p].newId = Len(rows')]_vars

\* both invocations are done, each has created a row, and the two rows are
\* recent rows of the same politician and position
C21_Witness ==
  /\ \A p \in Procs : run[p].pc = "done" /\ run[p].newId # 0
  /\ run[1].newId # run[2].newId
  /\ DuplicateRecent(run[1].newId, run[2].newId)
  /\ run[1].arg = run[2].arg

\* C22 as stated: concurrent invocations for the same unseen name create one
\* Politician row for it, and every invocation holds that row
C22_Original ==
  /\ \A i, j \in 1..Len(politicians) :
       i # j => politicians[i].name # politicians[j].name
  /\ \A p, q \in Procs :
       (run[p].pol # 0 /\ run[q].pol # 0 /\ run[p].name = run[q].name)
         => run[p].pol = run[q].pol

\* C23: a step of the pipeline deletes no Politician and no ResearchResult
\* and changes no existing ResearchResult; rows are only appended, one at a
\* time, by the step that ends an invocation, so an invocation adds at most
\* one row and a stale row stays as it was when a new one is created.
C23_PipelineFrame ==
  [][/\ Len(politicians') >= Len(politicians)
     /\ \A i \in 1..Len(politicians) : politicians'[i].name = politicians[i].name
     /\ Len(rows') >= Len(rows)
     /\ \A i \in 1..Len(rows) : rows'[i] = rows[i]
     /\ rows' # rows =>
          /\ Len(rows') = Len(rows) + 1
          /\ \E p \in Procs : /\ run[p].pc = "persist"
                               /\ run'[p].pc \in {"done", "respond"}
                               /\ run[p].newId = 0
                               /\ run'[p].newId = Len(rows')]_vars

\* a new row has been created next to a stale row of the same politician
\* and position, which is still stored
C23_Witness ==
  /\ Len(rows) = 2
  /\ rows[1].pol = rows[2].pol
  /\ IExact(rows[1].position, rows[2].position)
  /\ \E p \in Procs : /\ run[p].newId = 2
                       /\ run[p].result = RRResult(2)
                       /\ ~is_recent(rows[1].created_at, run[p].pmax)

DistinctUrls(list) ==
  \A i, j \in 1..Len(list) : i # j => list[i].url # list[j].url

\* C24 as stated: within one run no URL is fetched twice (the results
\* handed to the fetch stage name each URL once) and no URL appears twice
\* in the sources of a stored result
C24_Original ==
  /\ \A p \in Procs : run[p].pc = "fetch" => DistinctUrls(run[p].hits)
  /\ \A p \in Procs : DistinctUrls(run[p].contents)
  /\ \A i \in 1..Len(rows) : DistinctUrls(rows[i].sources)

\* C25 as stated: an exception in the enrichment step does not end the
\* invocation: no invocation returns because enrichment raised, and none
\* returns the outer error diagnostic for it
C25_Original ==
  \A p \in Procs :
    "enrich" \in run[p].external =>
      ~(run[p].raised = "enrich" /\ run[p].result = OuterDiag(run[p]))

IsWebsiteRank(k) == is_website_url([kind |-> "str", text |-> call.provider[k].url])

\* the ranks _google_search considers: the website URLs of the provider's
\* answer up to twice the number asked for
CandidateRanks ==
  {k \in 1..Len(call.provider) :
     /\ IsWebsiteRank(k)
     /\ Cardinality({j \in 1..(k - 1) : IsWebsiteRank(j)})
          < call.num_results * CandidateFactor}

UsableBefore(k) == {j \in CandidateRanks : j < k /\ call.provider[j].page = "ok"}

PickedRanks == {call.out.picked[i] : i \in 1..Len(call.out.picked)}

\* C26: a candidate URL whose page fails to load or parse is skipped and the
\* candidates after it are still processed: every usable candidate with
\* fewer than num_results usable candidates before it is returned, whatever
\* failed before it; a failure of the provider gives the empty list.
C26_SearchFailurePolicy ==
  SearchDone =>
    /\ call.fails => call.out.results = <<>>
    /\ ~call.fails =>
         /\ \A k \in CandidateRanks :
              (call.provider[k].page = "ok"
                 /\ Cardinality(UsableBefore(k)) < call.num_results)
                => k \in PickedRanks
         /\ \A k \in PickedRanks : call.provider[k].page = "ok"
         /\ Len(call.out.results) = Len(call.out.picked)

\* the first candidate's page raised, the second had no snippet, and the
\* third was still returned
C26_Witness ==
  /\ SearchDone
  /\ ~call.fails
  /\ call.num_results = 2
  /\ Len(call.provider) >= 3
  /\ call.provider[1].page = "exc"
  /\ call.provider[2].page = "nosnippet"
  /\ call.provider[3].page = "ok"
  /\ call.provider[3].url = UrlArticle
  /\ call.out.picked = <<3>>

\* the LLM answered with a name other than the input, as written
ProposedOther == call.reply # NoReply /\ Strip(call.reply) \notin {"", call.name}

\* the LLM answered with a name that differs from the input in more than
\* letter case
ProposedOtherName ==
  /\ call.reply # NoReply
  /\ Strip(call.reply) # ""
  /\ Lower(Strip(call.reply)) # Lower(call.name)

NormReturns == call.fn = "normalize" /\ call.pc # "done" /\ call'.pc = "done"

\* C27 as stated: without a confirmed page the call returns the LLM's name
\* whenever the LLM proposed a name other than the input, else the input
C27_Original ==
  (NormDone /\ call.out.url = NoUrl) =>
    call.out.name = IF ProposedOther THEN Strip(call.reply) ELSE call.name

\* C27: a reference URL is returned only by the step that confirmed a page
\* (the page of the LLM's name exists, or the matcher accepted the page of
\* the original name or of a search result); without one, the call returns
\* the LLM's name if it differs from the input in more than letter case and
\* the lookup of the original name did not raise, else the original name.
C27_NormalizationResult ==
  /\ [][(NormReturns /\ call'.out.url # NoUrl) =>
          /\ call.exc = "none"
          /\ \/ /\ call.pc = "verify_llm"
                /\ ProposedOtherName
                /\ call'.out.name = Strip(call.reply)
             \/ /\ call.pc \in {"lookup", "results"}
                /\ call'.out.name \in WikiTitles]_vars
  /\ [][(NormReturns /\ call'.out.url = NoUrl) =>
          call'.out.name = IF call.exc = "none" /\ ProposedOtherName
                           THEN Strip(call.reply)
                           ELSE call.name]_vars

\* no page was confirmed and the call returned the LLM's name without a URL
C27_Witness ==
  /\ NormDone
  /\ call.reply = " Juana Doe "
  /\ call.out = [name |-> "Juana Doe", url |-> NoUrl]
  /\ call.left = 0

\* the k-th smallest element of a set of indices
KthOf(keep, k) == CHOOSE i \in keep : Cardinality({j \in keep : j < i}) = k - 1

\* list holds, in the order of hits, the results of the indices in keep,
\* each with its URL, title and query and a content of sufficient length
SourcesOf(list, hits, keep) ==
  /\ Len(list) = Cardinality(keep)
  /\ \A k \in 1..Len(list) :
       /\ DOMAIN list[k] = {"url", "title", "query", "content"}
       /\ list[k].url = hits[KthOf(keep, k)].url
       /\ list[k].title = hits[KthOf(keep, k)].title
       /\ list[k].query = hits[KthOf(keep, k)].query
       /\ list[k].content >= MinContentLen

C29_NoStoredSearchRequest ==
  \A i \in 1..Len(qandas) : ~startswith(qandas[i], "SEARCH_QUERY:")

\* the response after the search hid the sentinel behind the answer tag and
\* "I don't know." was stored
C29_Witness ==
  /\ qa.pc = "answered"
  /\ qa.status = 201
  /\ startswith(qa.first, "SEARCH_QUERY:")
  /\ qa.second = <<"ANSWER:", "SEARCH_QUERY:">>
  /\ qandas[Len(qandas)] = IDontKnow

\* C30: an exception while looking up or evaluating the existing result is
\* swallowed: the invocation goes on as after a cache miss (enrichment if
\* the politician needs it, then search, fetch and analysis), returns no
\* diagnostic for the lookup failure and does not return the existing
\* result.
C30_LookupFailureIsMiss ==
  /\ [][\A p \in Procs :
          (run[p].pc = "cache_check" /\ run'[p].cacheErr) =>
            /\ run'[p].pc = AfterCacheCheck(run[p])
            /\ run'[p].pc \in {"enrich", "search"}
            /\ run'[p].result = NoResult
            /\ run'[p].raised = "none"]_vars
  /\ [](\A p \in Procs :
          run[p].cacheErr =>
            /\ run[p].raised # "cache_check"
            /\ PipelineDone(run[p]) => ~Reused(run[p])
            /\ (PipelineDone(run[p]) /\ run[p].raised = "none") =>
                 /\ "search" \in run[p].external
                 /\ run[p].fetched)

\* the lookup failed although a recent result of the politician and
\* position was stored, and the invocation created a new result
C30_Witness ==
  \E p \in Procs :
    /\ run[p].cacheErr
    /\ run[p].newId = 2
    /\ run[p].result = RRResult(2)
    /\ rows[1].pol = run[p].pol
    /\ IExact(rows[1].position, run[p].position)
    /\ is_recent(rows[1].created_at, run[p].pmax)

====
